---- MODULE Spec2Model ----
(***************************************************************************)
(* Model of ConfigParsing (src/exception.py): the line tokenizer           *)
(* parse_line, the per-line field accumulation of parse, and the           *)
(* whole-record validation that follows the scan.                          *)
(*                                                                         *)
(* Text is modelled as a sequence of one-character strings, so that        *)
(* strip, split, lower and int act on the characters as Python does.       *)
(***************************************************************************)
EXTENDS Integers, Sequences, FiniteSets, TLC

\* ------------------------------------------------------- character helpers
Whitespace == {" ", "\t", "\n"}

Digits == <<"0", "1", "2", "3", "4", "5", "6", "7", "8", "9">>

DigitChars == {Digits[i] : i \in 1..10}

DigitVal(c) == (CHOOSE i \in 1..10 : Digits[i] = c) - 1

UpperToLower ==
  [c \in {"W", "I", "D", "T", "H", "E", "N", "R", "Y", "X"} |->
     CASE c = "W" -> "w" [] c = "I" -> "i" [] c = "D" -> "d" [] c = "T" -> "t"
       [] c = "H" -> "h" [] c = "E" -> "e" [] c = "N" -> "n" [] c = "R" -> "r"
       [] c = "Y" -> "y" [] c = "X" -> "x"]

\* str.lower()
Lower(s) ==
  [i \in 1..Len(s) |-> IF s[i] \in DOMAIN UpperToLower THEN UpperToLower[s[i]] ELSE s[i]]

RECURSIVE LStrip(_)
LStrip(s) ==
  IF s # <<>> /\ Head(s) \in Whitespace THEN LStrip(Tail(s)) ELSE s

RECURSIVE RStrip(_)
RStrip(s) ==
  IF s # <<>> /\ s[Len(s)] \in Whitespace THEN RStrip(SubSeq(s, 1, Len(s) - 1)) ELSE s

\* str.strip()
Strip(s) == RStrip(LStrip(s))

\* c in s
Contains(s, c) == \E i \in 1..Len(s) : s[i] = c

\* s.split(c, 1) for a string that contains c: the text before the first c
\* and the text after it
SplitFirst(s, c) ==
  LET i == CHOOSE k \in 1..Len(s) : s[k] = c /\ \A j \in 1..(k - 1) : s[j] # c
  IN  <<SubSeq(s, 1, i - 1), SubSeq(s, i + 1, Len(s))>>

\* s.split(c): every piece between occurrences of c
RECURSIVE Split(_, _)
Split(s, c) ==
  IF Contains(s, c)
  THEN <<SplitFirst(s, c)[1]>> \o Split(SplitFirst(s, c)[2], c)
  ELSE <<s>>

\* line.startswith("#")
StartsWithHash(s) == s # <<>> /\ s[1] = "#"

\* int(text): Python accepts surrounding whitespace, one optional sign and
\* decimal digits with single underscores between digits
Unsigned(s) ==
  LET t == Strip(s)
  IN  IF t # <<>> /\ t[1] \in {"+", "-"} THEN Tail(t) ELSE t

IntOk(s) ==
  LET d == Unsigned(s)
  IN  /\ d # <<>>
      /\ \A i \in 1..Len(d) : d[i] \in DigitChars \cup {"_"}
      /\ d[1] # "_" /\ d[Len(d)] # "_"
      /\ \A i \in 1..(Len(d) - 1) : ~(d[i] = "_" /\ d[i + 1] = "_")

RECURSIVE DigitsValue(_, _)
DigitsValue(d, sofar) ==
  IF d = <<>> THEN sofar
  ELSE IF Head(d) = "_" THEN DigitsValue(Tail(d), sofar)
  ELSE DigitsValue(Tail(d), 10 * sofar + DigitVal(Head(d)))

IntValue(s) ==
  LET t == Strip(s)
      m == DigitsValue(Unsigned(s), 0)
  IN  IF t[1] = "-" THEN 0 - m ELSE m


\* ------------------------------------------------------------- error values
\* An exception is its class and its message; the message is the sequence of
\* the literal and interpolated pieces of the (f-)string that builds it.
NoError == [kind |-> "None", msg |-> <<>>]

Raise(kind, msg) == [kind |-> kind, msg |-> msg]

\* ---------------------------------------------------------- line tokenizer
FormatMessage == <<"Invalid line format: expected '=' or ':'">>

\* Faulty variant of parse_line: the value is cut at "#" but not stripped
parse_line_unstripped(line) ==
  IF Contains(line, "=")
  THEN LET kv == SplitFirst(line, "=")
       IN  [ok |-> TRUE, key |-> Lower(Strip(kv[1])),
            value |-> Split(kv[2], "#")[1], err |-> NoError]
  ELSE IF Contains(line, ":")
  THEN LET kv == SplitFirst(line, ":")
       IN  [ok |-> TRUE, key |-> Lower(Strip(kv[1])),
            value |-> Split(kv[2], "#")[1], err |-> NoError]
  ELSE [ok |-> FALSE, key |-> <<>>, value |-> <<>>,
        err |-> Raise("ConfigError", FormatMessage)]

\* parse_line(line): the (key, value) pair, or the ConfigError it raises
parse_line(line) ==
  IF Contains(line, "=")
  THEN LET kv == SplitFirst(line, "=")
       IN  [ok |-> TRUE, key |-> Lower(Strip(kv[1])),
            value |-> Strip(Split(kv[2], "#")[1]), err |-> NoError]
  ELSE IF Contains(line, ":")
  THEN LET kv == SplitFirst(line, ":")
       IN  [ok |-> TRUE, key |-> Lower(Strip(kv[1])),
            value |-> Strip(Split(kv[2], "#")[1]), err |-> NoError]
  ELSE [ok |-> FALSE, key |-> <<>>, value |-> <<>>,
        err |-> Raise("ConfigError", FormatMessage)]

\* --------------------------------------------------------- field coercions
\* x, y = value.split(","); (int(x.strip()), int(y.strip())) succeeds
CoordOk(value) ==
  LET parts == Split(value, ",")
  IN  Len(parts) = 2 /\ IntOk(Strip(parts[1])) /\ IntOk(Strip(parts[2]))

CoordValue(value) ==
  LET parts == Split(value, ",")
  IN  <<IntValue(Strip(parts[1])), IntValue(Strip(parts[2]))>>

\* The names of the recognized keys, as the characters parse_line returns
K_width == <<"w", "i", "d", "t", "h">>
K_height == <<"h", "e", "i", "g", "h", "t">>
K_entry == <<"e", "n", "t", "r", "y">>
K_exit == <<"e", "x", "i", "t">>
K_output_file == <<"o", "u", "t", "p", "u", "t", "_", "f", "i", "l", "e">>
K_algorithm == <<"a", "l", "g", "o", "r", "i", "t", "h", "m">>

\* Optional fields: None, or a value
None == [some |-> FALSE, v |-> <<>>]

Some(x) == [some |-> TRUE, v |-> x]

\* algorithm: str = "recursive_backtracking"
DefaultAlgorithm ==
  <<"r", "e", "c", "u", "r", "s", "i", "v", "e", "_",
    "b", "a", "c", "k", "t", "r", "a", "c", "k", "i", "n", "g">>

\* The local variables of parse as one record
InitialFields ==
  [width |-> None, height |-> None, entry |-> None, exit_coord |-> None,
   output_file |-> None, algorithm |-> DefaultAlgorithm]

\* The if/elif chain of the loop body, first half: the field the key names
\* and the coerced value, or the error of a failed coercion; an unrecognized
\* key names no field
Coerce(key, value) ==
  IF key = K_width
  THEN IF IntOk(value)
       THEN [ok |-> TRUE, field |-> "width", v |-> Some(IntValue(value)), err |-> NoError]
       ELSE [ok |-> FALSE, field |-> "width", v |-> None,
             err |-> Raise("InvalidDimensionsError", <<"Width must be an integer">>)]
  ELSE IF key = K_height
  THEN IF IntOk(value)
       THEN [ok |-> TRUE, field |-> "height", v |-> Some(IntValue(value)), err |-> NoError]
       ELSE [ok |-> FALSE, field |-> "height", v |-> None,
             err |-> Raise("InvalidDimensionsError", <<"Height must be an integer">>)]
  ELSE IF key = K_entry
  THEN IF CoordOk(value)
       THEN [ok |-> TRUE, field |-> "entry", v |-> Some(CoordValue(value)), err |-> NoError]
       ELSE [ok |-> FALSE, field |-> "entry", v |-> None,
             err |-> Raise("InvalidCoordinatesError", <<"Entry must be in format: x,y">>)]
  ELSE IF key = K_exit
  THEN IF CoordOk(value)
       THEN [ok |-> TRUE, field |-> "exit_coord", v |-> Some(CoordValue(value)),
             err |-> NoError]
       ELSE [ok |-> FALSE, field |-> "exit_coord", v |-> None,
             err |-> Raise("InvalidCoordinatesError", <<"Exit must be in format: x,y">>)]
  ELSE IF key = K_output_file
  THEN [ok |-> TRUE, field |-> "output_file", v |-> Some(value), err |-> NoError]
  ELSE IF key = K_algorithm
  THEN [ok |-> TRUE, field |-> "algorithm", v |-> value, err |-> NoError]
  ELSE [ok |-> TRUE, field |-> "none", v |-> None, err |-> NoError]

\* Faulty variant of Assign: a field that is already set keeps its value
AssignKeepFirst(f, c) ==
  IF c.field = "none" THEN f
  ELSE IF c.field = "algorithm"
  THEN IF f.algorithm = DefaultAlgorithm THEN [f EXCEPT !.algorithm = c.v] ELSE f
  ELSE IF f[c.field].some THEN f
  ELSE [f EXCEPT ![c.field] = c.v]

\* The if/elif chain of the loop body, second half: the assignment to the local
Assign(f, c) ==
  IF c.field = "none" THEN f ELSE [f EXCEPT ![c.field] = c.v]

\* Faulty variant of LoopBody: a line that parse_line rejects is skipped
LoopBodySkipsBadLine(raw) ==
  LET line == Strip(raw)
  IN  IF line = <<>> \/ StartsWithHash(line)
      THEN [ok |-> TRUE, field |-> "none", v |-> None, err |-> NoError]
      ELSE LET t == parse_line(line)
           IN  IF ~t.ok
               THEN [ok |-> TRUE, field |-> "none", v |-> None, err |-> NoError]
               ELSE Coerce(t.key, t.value)

\* The body of "for line in file" up to the assignment: a blank or comment
\* line is skipped, the others are tokenized and coerced
LoopBody(raw) ==
  LET line == Strip(raw)
  IN  IF line = <<>> \/ StartsWithHash(line)
      THEN [ok |-> TRUE, field |-> "none", v |-> None, err |-> NoError]
      ELSE LET t == parse_line(line)
           IN  IF ~t.ok
               THEN [ok |-> FALSE, field |-> "none", v |-> None, err |-> t.err]
               ELSE Coerce(t.key, t.value)

\* One iteration of "for line in file" on the locals f, where c is what
\* LoopBody makes of the line: the locals after it, or the error raised
ScanOne(f, c) ==
  [ok |-> c.ok, f |-> IF c.ok THEN Assign(f, c) ELSE f, err |-> c.err]

\* ---------------------------------------------------------- record validator
max_dimension == 1000

CoordText(c) == <<"(", ToString(c[1]), ", ", ToString(c[2]), ")">>

BoundsText(w, h) == <<"(0-", ToString(w - 1), ", 0-", ToString(h - 1), ")">>

\* Faulty variant of PresenceCheck: height is looked for before width
PresenceCheckHeightFirst(f) ==
  IF ~f.height.some
  THEN Raise("InvalidDimensionsError", <<"Height not found in config file">>)
  ELSE IF ~f.width.some
  THEN Raise("InvalidDimensionsError", <<"Width not found in config file">>)
  ELSE IF ~f.entry.some
  THEN Raise("InvalidCoordinatesError", <<"Entry not found in config file">>)
  ELSE IF ~f.exit_coord.some
  THEN Raise("InvalidCoordinatesError", <<"Exit not found in config file">>)
  ELSE IF ~f.output_file.some
  THEN Raise("InvalidDimensionsError", <<"Output file not found in config file">>)
  ELSE NoError

\* Each group of checks after the scan gives the error it raises, or NoError
\* "Validate all required fields are present"
PresenceCheck(f) ==
  IF ~f.width.some
  THEN Raise("InvalidDimensionsError", <<"Width not found in config file">>)
  ELSE IF ~f.height.some
  THEN Raise("InvalidDimensionsError", <<"Height not found in config file">>)
  ELSE IF ~f.entry.some
  THEN Raise("InvalidCoordinatesError", <<"Entry not found in config file">>)
  ELSE IF ~f.exit_coord.some
  THEN Raise("InvalidCoordinatesError", <<"Exit not found in config file">>)
  ELSE IF ~f.output_file.some
  THEN Raise("InvalidDimensionsError", <<"Output file not found in config file">>)
  ELSE NoError

\* "Validate dimensions are positive"
PositiveCheck(w, h) ==
  IF w <= 0
  THEN Raise("InvalidDimensionsError", <<"Width must be positive, got ", ToString(w)>>)
  ELSE IF h <= 0
  THEN Raise("InvalidDimensionsError", <<"Height must be positive, got", ToString(h)>>)
  ELSE NoError

\* Faulty variant of MaxCheck: max_dimension itself is rejected
MaxCheckExclusive(w, h) ==
  IF w >= max_dimension
  THEN Raise("InvalidDimensionsError",
             <<"Width too large (max ", ToString(max_dimension), "), got ", ToString(w)>>)
  ELSE IF h >= max_dimension
  THEN Raise("InvalidDimensionsError",
             <<"Height too large (max ", ToString(max_dimension), "), got ", ToString(h)>>)
  ELSE NoError

MaxCheck(w, h) ==
  IF w > max_dimension
  THEN Raise("InvalidDimensionsError",
             <<"Width too large (max ", ToString(max_dimension), "), got ", ToString(w)>>)
  ELSE IF h > max_dimension
  THEN Raise("InvalidDimensionsError",
             <<"Height too large (max ", ToString(max_dimension), "), got ", ToString(h)>>)
  ELSE NoError

\* Faulty variant of BoundsCheck: a component equal to the width or the
\* height is accepted
BoundsCheckInclusive(w, h, en, ex) ==
  IF en[1] < 0 \/ en[1] > w \/ en[2] < 0 \/ en[2] > h
  THEN Raise("InvalidCoordinatesError",
             <<"Entry ">> \o CoordText(en) \o <<" is out of bounds ">> \o BoundsText(w, h))
  ELSE IF ex[1] < 0 \/ ex[1] > w \/ ex[2] < 0 \/ ex[2] > h
  THEN Raise("InvalidCoordinatesError",
             <<"Exit ">> \o CoordText(ex) \o <<" is out of bounds ">> \o BoundsText(w, h))
  ELSE NoError

BoundsCheck(w, h, en, ex) ==
  IF en[1] < 0 \/ en[1] >= w \/ en[2] < 0 \/ en[2] >= h
  THEN Raise("InvalidCoordinatesError",
             <<"Entry ">> \o CoordText(en) \o <<" is out of bounds ">> \o BoundsText(w, h))
  ELSE IF ex[1] < 0 \/ ex[1] >= w \/ ex[2] < 0 \/ ex[2] >= h
  THEN Raise("InvalidCoordinatesError",
             <<"Exit ">> \o CoordText(ex) \o <<" is out of bounds ">> \o BoundsText(w, h))
  ELSE NoError

DistinctCheck(en, ex) ==
  IF en = ex
  THEN Raise("InvalidCoordinatesError", <<"Entry and exit cannot be the same">>)
  ELSE NoError

\* The first error in the sequence of errors es, NoError if there is none
RECURSIVE FirstRaised(_)
FirstRaised(es) ==
  IF es = <<>> THEN NoError
  ELSE IF Head(es).kind # "None" THEN Head(es)
  ELSE FirstRaised(Tail(es))

\* Faulty variant of Validate: the upper bound is checked before positivity
ValidateMaxFirst(f) ==
  LET p == PresenceCheck(f)
  IN  IF p.kind # "None" THEN p
      ELSE FirstRaised(<<MaxCheck(f.width.v, f.height.v),
                         PositiveCheck(f.width.v, f.height.v),
                         BoundsCheck(f.width.v, f.height.v, f.entry.v, f.exit_coord.v),
                         DistinctCheck(f.entry.v, f.exit_coord.v)>>)

\* The checks after the scan, in the order of the code: the first error
\* raised, or NoError when the record is returned
Validate(f) ==
  LET p == PresenceCheck(f)
  IN  IF p.kind # "None" THEN p
      ELSE FirstRaised(<<PositiveCheck(f.width.v, f.height.v),
                         MaxCheck(f.width.v, f.height.v),
                         BoundsCheck(f.width.v, f.height.v, f.entry.v, f.exit_coord.v),
                         DistinctCheck(f.entry.v, f.exit_coord.v)>>)

\* The dictionary returned on success
Record(f) ==
  [width |-> f.width.v, height |-> f.height.v, entry |-> f.entry.v,
   exit |-> f.exit_coord.v, output_file |-> f.output_file.v,
   algorithm |-> f.algorithm]


\* ------------------------------------------------------------ the input file
\* The text of a decimal integer, as a writer of the file produces it
RECURSIVE NatText(_)
NatText(n) ==
  IF n < 10 THEN <<Digits[n + 1]>> ELSE NatText(n \div 10) \o <<Digits[(n % 10) + 1]>>

IntText(n) == IF n < 0 THEN <<"-">> \o NatText(0 - n) ELSE NatText(n)

CoordinateText(c) == IntText(c[1]) \o <<",">> \o IntText(c[2])

EOL == <<"\n">>

T_out == <<"o", "u", "t", ".", "t", "x", "t">>
T_prim == <<"p", "r", "i", "m">>
T_seed == <<"s", "e", "e", "d">>
T_abc == <<"a", "b", "c">>

\* Dimensions and coordinates written into the files
WidthValues == {0 - 1, 0, 1, 1000, 1001}

HeightValues == {0 - 1, 0, 1, 1000, 1001}

EntryValues == {<<0, 0>>, <<999, 999>>, <<1000, 999>>, <<0, 1>>, <<0 - 1, 0>>}

ExitValues == {<<0, 0>>, <<999, 999>>, <<999, 1000>>, <<1, 0>>, <<0, 0 - 1>>}

\* A line of the file: its text, the key it is written for and the value the
\* writer means by it (n for a dimension, xy for a coordinate, s for a
\* string); good is FALSE when the value is not of the key's type
Line(text, key, good, n, xy, s) ==
  [text |-> text, key |-> key, good |-> good, n |-> n, xy |-> xy, s |-> s]

DimLines(name, upper, key, values) ==
  {Line(name \o <<" ", "=", " ">> \o IntText(n) \o EOL, key, TRUE, n, <<0, 0>>, <<>>) :
     n \in values}
  \cup {Line(<<" ">> \o upper \o <<":", " ", "1", " ", "#", " ", ":", "9">> \o EOL,
             key, TRUE, 1, <<0, 0>>, <<>>),
        Line(name \o <<"=", "+", "1", "_", "0", "0", "0">>, key, TRUE, 1000, <<0, 0>>, <<>>),
        Line(name \o <<" ", "=", " ">> \o T_abc \o EOL, key, FALSE, 0, <<0, 0>>, <<>>),
        Line(name \o <<" ", "=">> \o EOL, key, FALSE, 0, <<0, 0>>, <<>>)}

CoordLines(name, upper, key, values) ==
  {Line(name \o <<" ", "=", " ">> \o CoordinateText(c) \o EOL, key, TRUE, 0, c, <<>>) :
     c \in values}
  \cup {Line(upper \o <<":", " ", "0", " ", ",", " ", "0", " ", "#", "x">> \o EOL,
             key, TRUE, 0, <<0, 0>>, <<>>),
        Line(name \o <<" ", "=", " ", "1">> \o EOL, key, FALSE, 0, <<0, 0>>, <<>>),
        Line(name \o <<"=", "1", ",", "2", ",", "3">> \o EOL, key, FALSE, 0, <<0, 0>>, <<>>),
        Line(name \o <<"=", "a", ",", "b">> \o EOL, key, FALSE, 0, <<0, 0>>, <<>>)}

StringLines(name, key, text) ==
  {Line(name \o <<" ", "=", " ">> \o text \o EOL, key, TRUE, 0, <<0, 0>>, text),
   Line(name \o <<":", " ">> \o text \o <<" ", "#", " ">> \o T_abc \o EOL,
        key, TRUE, 0, <<0, 0>>, text),
   Line(name \o <<" ", "=">> \o EOL, key, TRUE, 0, <<0, 0>>, <<>>),
   Line(name \o <<" ", "=", " ", "#", " ">> \o T_abc \o EOL, key, TRUE, 0, <<0, 0>>, <<>>)}

OtherLines ==
  {Line(EOL, "skip", TRUE, 0, <<0, 0>>, <<>>),
   Line(<<" ", "\t">> \o EOL, "skip", TRUE, 0, <<0, 0>>, <<>>),
   Line(<<" ", "#", " ">> \o K_width \o <<"=", "1">> \o EOL, "skip", TRUE, 0, <<0, 0>>, <<>>),
   Line(T_seed \o <<" ", "=", " ", "4", "2">> \o EOL, "other", TRUE, 0, <<0, 0>>, <<>>),
   Line(K_entry \o <<":", " ", "0", ",", "0", " ", "#", " ", "a", "=", "b">> \o EOL,
        "other", TRUE, 0, <<0, 0>>, <<>>),
   Line(<<"b", "o", "g", "u", "s", "_", "l", "i", "n", "e">> \o EOL,
        "noseparator", FALSE, 0, <<0, 0>>, <<>>),
   Line(K_width \o <<" ", "1", "0">>, "noseparator", FALSE, 0, <<0, 0>>, <<>>)}

\* The lines a file may hold
FileLines ==
  DimLines(K_width, <<"W", "I", "D", "T", "H">>, "width", WidthValues)
  \cup DimLines(K_height, <<"H", "e", "i", "g", "h", "t">>, "height", HeightValues)
  \cup CoordLines(K_entry, <<"E", "N", "T", "R", "Y">>, "entry", EntryValues)
  \cup CoordLines(K_exit, <<"E", "x", "i", "t">>, "exit", ExitValues)
  \cup StringLines(K_output_file, "output_file", T_out)
  \cup {l \in StringLines(K_algorithm, "algorithm", T_prim) : l.s # <<>>}
  \cup OtherLines

FieldKeys == {"width", "height", "entry", "exit", "output_file", "algorithm"}

\* What the loop body makes of each line of FileLines
Scanned == [l \in FileLines |-> LoopBody(l.text)]

\* No line written yet for a key
Unwritten == [set |-> FALSE, n |-> 0, xy |-> <<0, 0>>, s |-> <<>>]

Written(l) == [set |-> TRUE, n |-> l.n, xy |-> l.xy, s |-> l.s]

\* The paths parse is called with, and what open(filename, "r") does for
\* each: it returns the file, or raises
FileSystem ==
  [p \in {"config.txt", "missing.txt", "secret.txt", "mazes"} |->
     CASE p = "config.txt" -> "ok"
       [] p = "missing.txt" -> "FileNotFoundError"
       [] p = "secret.txt" -> "PermissionError"
       [] p = "mazes" -> "IsADirectoryError"]

Paths == DOMAIN FileSystem

\* ------------------------------------------------------------ state machine
VARIABLES
  pc,        \* where the call of parse is
  filename,  \* the argument of parse
  fields,    \* the local variables width .. algorithm
  error,     \* the exception that left parse, NoError if none
  result,    \* the dictionary parse returned, None if none
  written,   \* history: for each key, what the writer of the file put on
             \* the last line for that key that has been read
  overwrote, \* history: a line was read for a key that an earlier line had
             \* given another value
  malformed  \* history: "none", or what is wrong with the last line read:
             \* "noseparator", or the key whose value is not of its type

vars == <<pc, filename, fields, error, result, written, overwrote, malformed>>

FailedStates == {"OpenFailed", "ParseFailed", "ValidationFailed"}

Init ==
  /\ pc = "Start"
  /\ filename \in Paths
  /\ fields = InitialFields
  /\ error = NoError
  /\ result = None
  /\ written = [k \in FieldKeys |-> Unwritten]
  /\ overwrote = FALSE
  /\ malformed = "none"

\* The exception that leaves the try block when open() ends with outcome o
OpenError(o, path) ==
  IF o = "FileNotFoundError"
  THEN Raise("ConfigError", <<"Config file '", path, "' not found">>)
  ELSE IF o = "PermissionError"
  THEN Raise("PermissionError", <<"[Errno 13] Permission denied: '", path, "'">>)
  ELSE Raise("IsADirectoryError", <<"[Errno 21] Is a directory: '", path, "'">>)

\* parse is entered: the locals are initialised
Begin ==
  /\ pc = "Start"
  /\ pc' = "Opening"
  /\ fields' = InitialFields
  /\ UNCHANGED <<filename, error, result, written, overwrote, malformed>>

\* open(filename, "r")
OpenFile ==
  /\ pc = "Opening"
  /\ LET o == FileSystem[filename]
     IN  IF o = "ok"
         THEN pc' = "Scanning" /\ error' = error
         ELSE pc' = "OpenFailed" /\ error' = OpenError(o, filename)
  /\ UNCHANGED <<filename, fields, result, written, overwrote, malformed>>

\* Faulty variant of ReadLine: the error of a line is kept but the loop goes on
ReadLineContinues ==
  /\ pc = "Scanning"
  /\ \E l \in FileLines :
       LET r == ScanOne(fields, Scanned[l])
           assigns == l.key \in FieldKeys /\ l.good
       IN  /\ written' = IF assigns THEN [written EXCEPT ![l.key] = Written(l)]
                         ELSE written
           /\ overwrote' = (overwrote \/ (assigns /\ written[l.key].set
                                              /\ written[l.key] # Written(l)))
           /\ malformed' = IF l.good THEN "none" ELSE l.key
           /\ fields' = r.f
           /\ pc' = pc
           /\ error' = IF r.ok THEN error ELSE r.err
  /\ UNCHANGED <<filename, result>>

\* One iteration of the loop over the lines of the file
ReadLine ==
  /\ pc = "Scanning"
  /\ \E l \in FileLines :
       LET r == ScanOne(fields, Scanned[l])
           assigns == l.key \in FieldKeys /\ l.good
       IN  /\ written' = IF assigns THEN [written EXCEPT ![l.key] = Written(l)]
                         ELSE written
           /\ overwrote' = (overwrote \/ (assigns /\ written[l.key].set
                                              /\ written[l.key] # Written(l)))
           /\ malformed' = IF l.good THEN "none" ELSE l.key
           /\ fields' = r.f
           /\ IF r.ok
              THEN pc' = pc /\ error' = error
              ELSE pc' = "ParseFailed" /\ error' = r.err
  /\ UNCHANGED <<filename, result>>

\* The file is exhausted: the loop and the with block end
EndOfFile ==
  /\ pc = "Scanning"
  /\ pc' = "Validating"
  /\ UNCHANGED <<filename, fields, error, result, written, overwrote, malformed>>

\* The checks after the scan and the return
ValidateRecord ==
  /\ pc = "Validating"
  /\ LET e == Validate(fields)
     IN  IF e.kind = "None"
         THEN pc' = "Done" /\ result' = Some(Record(fields)) /\ error' = error
         ELSE pc' = "ValidationFailed" /\ result' = result /\ error' = e
  /\ UNCHANGED <<filename, fields, written, overwrote, malformed>>

Next == Begin \/ OpenFile \/ ReadLine \/ EndOfFile \/ ValidateRecord

Spec == Init /\ [][Next]_vars


\* ---------------------------------------------------------------- properties
Required == <<"width", "height", "entry", "exit", "output_file">>

AllWritten == \A i \in 1..5 : written[Required[i]].set

\* parse has returned or raised after the scan ended without error
Validated == pc \in {"Done", "ValidationFailed"}

InBox(c, w, h) == c[1] >= 0 /\ c[1] <= w - 1 /\ c[2] >= 0 /\ c[2] <= h - 1

WrittenW == written["width"].n
WrittenH == written["height"].n
WrittenEntry == written["entry"].xy
WrittenExit == written["exit"].xy

CoordsWellFormed ==
  /\ InBox(WrittenEntry, WrittenW, WrittenH)
  /\ InBox(WrittenExit, WrittenW, WrittenH)
  /\ WrittenEntry # WrittenExit

FileWellFormed ==
  /\ AllWritten
  /\ WrittenW \in 1..1000 /\ WrittenH \in 1..1000
  /\ CoordsWellFormed

\* The record a well-formed file stands for
WrittenRecord ==
  [width |-> WrittenW, height |-> WrittenH, entry |-> WrittenEntry,
   exit |-> WrittenExit, output_file |-> written["output_file"].s,
   algorithm |-> IF written["algorithm"].set THEN written["algorithm"].s
                 ELSE DefaultAlgorithm]

\* C1: a file whose five required values are present, with dimensions in
\* 1..1000 and entry and exit inside the grid and different, is parsed
\* successfully, and the record returned holds exactly the values written,
\* with algorithm "recursive_backtracking" when the file has no algorithm line.
C1_WellFormedFileParses ==
  (Validated /\ FileWellFormed) =>
    /\ pc = "Done"
    /\ error = NoError
    /\ result.some
    /\ result.v = WrittenRecord

C1_Witness ==
  /\ pc = "Done"
  /\ FileWellFormed
  /\ ~written["algorithm"].set
  /\ result.v.algorithm = DefaultAlgorithm
  /\ result.v.width = 1000
  /\ result.v.exit = <<999, 999>>

PresenceMessage ==
  [k \in {"width", "height", "entry", "exit", "output_file"} |->
     CASE k = "width" -> "Width not found in config file"
       [] k = "height" -> "Height not found in config file"
       [] k = "entry" -> "Entry not found in config file"
       [] k = "exit" -> "Exit not found in config file"
       [] k = "output_file" -> "Output file not found in config file"]

FirstMissing ==
  LET i == CHOOSE k \in 1..5 :
             ~written[Required[k]].set /\ \A j \in 1..(k - 1) : written[Required[j]].set
  IN  Required[i]

\* C2: when every line scanned without error and some of width, height,
\* entry, exit, output_file was never set, parse fails with the "not found
\* in config file" error of the first missing field in that order; a file of
\* comments and blank lines only fails with the one for width.
C2_FirstMissingFieldReported ==
  (Validated /\ ~AllWritten) =>
    /\ pc = "ValidationFailed"
    /\ ~result.some
    /\ error.msg = <<PresenceMessage[FirstMissing]>>

C2_Witness ==
  /\ pc = "ValidationFailed"
  /\ written["width"].set /\ written["entry"].set
  /\ ~written["height"].set /\ ~written["exit"].set
  /\ error.msg = <<"Height not found in config file">>

AllPresent(f) ==
  f.width.some /\ f.height.some /\ f.entry.some /\ f.exit_coord.some /\ f.output_file.some

\* The rules of the validator in their order, and how the error of each begins
RuleHolds(i, f) ==
  CASE i = 1 -> f.width.v > 0
    [] i = 2 -> f.height.v > 0
    [] i = 3 -> f.width.v <= 1000
    [] i = 4 -> f.height.v <= 1000
    [] i = 5 -> InBox(f.entry.v, f.width.v, f.height.v)
    [] i = 6 -> InBox(f.exit_coord.v, f.width.v, f.height.v)
    [] i = 7 -> f.entry.v # f.exit_coord.v

RuleMessage ==
  <<"Width must be positive, got ", "Height must be positive, got",
    "Width too large (max ", "Height too large (max ",
    "Entry ", "Exit ", "Entry and exit cannot be the same">>

Violated(f) == {i \in 1..7 : ~RuleHolds(i, f)}

FirstViolated(f) == CHOOSE i \in Violated(f) : \A j \in Violated(f) : i <= j

\* C3: with the five required fields present the validator fails with the
\* first violated rule in the order width > 0, height > 0, width <= 1000,
\* height <= 1000, entry in bounds, exit in bounds, entry # exit, and returns
\* the record when none is violated; while a required field is missing the
\* error is a presence error, whatever the dimensions are.
C3_FirstViolatedRuleReported ==
  Validated =>
    IF AllPresent(fields)
    THEN IF Violated(fields) = {}
         THEN pc = "Done"
         ELSE pc = "ValidationFailed"
              /\ error.msg[1] = RuleMessage[FirstViolated(fields)]
    ELSE pc = "ValidationFailed"
         /\ \E k \in DOMAIN PresenceMessage : error.msg = <<PresenceMessage[k]>>

C3_Witness ==
  /\ pc = "ValidationFailed"
  /\ AllPresent(fields)
  /\ fields.width.v > 1000 /\ fields.height.v <= 0
  /\ fields.entry.v = fields.exit_coord.v
  /\ error.msg[1] = "Height must be positive, got"

\* C4: with the other fields valid, a width or height that is <= 0 or > 1000
\* makes parse fail with an InvalidDimensionsError, and the boundary values 1
\* and 1000 are accepted.
C4_DimensionRange ==
  (Validated /\ AllWritten) =>
    /\ (WrittenW <= 0 \/ WrittenW > 1000 \/ WrittenH <= 0 \/ WrittenH > 1000) =>
         /\ pc = "ValidationFailed"
         /\ error.kind = "InvalidDimensionsError"
         /\ ~result.some
    /\ (WrittenW \in {1, 1000} /\ WrittenH \in {1, 1000} /\ CoordsWellFormed) =>
         /\ pc = "Done"
         /\ result.v.width = WrittenW
         /\ result.v.height = WrittenH

C4_Witness ==
  /\ pc = "Done"
  /\ WrittenW = 1000 /\ WrittenH = 1
  /\ result.v.width = 1000 /\ result.v.height = 1

\* The last five pieces of a message
Last5(m) == SubSeq(m, Len(m) - 4, Len(m))

\* C5: with valid dimensions W and H, entry and exit inside 0..W-1, 0..H-1
\* (and different) are accepted, and an entry or exit with a component equal
\* to W or H, or negative, makes parse fail with an InvalidCoordinatesError
\* whose message ends with the box (0-W-1, 0-H-1).
C5_CoordinateBounds ==
  (Validated /\ AllWritten /\ WrittenW \in 1..1000 /\ WrittenH \in 1..1000) =>
    /\ CoordsWellFormed => pc = "Done"
    /\ (~InBox(WrittenEntry, WrittenW, WrittenH) \/ ~InBox(WrittenExit, WrittenW, WrittenH)) =>
         /\ pc = "ValidationFailed"
         /\ error.kind = "InvalidCoordinatesError"
         /\ Len(error.msg) >= 5
         /\ Last5(error.msg) =
              <<"(0-", ToString(WrittenW - 1), ", 0-", ToString(WrittenH - 1), ")">>

C5_Witness ==
  /\ pc = "ValidationFailed"
  /\ AllWritten
  /\ WrittenW = 1000 /\ WrittenH = 1000
  /\ WrittenEntry = <<1000, 999>>
  /\ error.kind = "InvalidCoordinatesError"

\* C6: every record returned by parse has a non-empty output_file.
C6_OutputFileNonEmpty ==
  pc = "Done" => result.v.output_file # <<>>

\* C7: when a key is given on more than one line the last line wins: after
\* the scan each field holds the value of the last line read for its key (and
\* nothing when there was none), and the record returned holds those values.
C7_LastOccurrenceWins ==
  (pc \in {"Validating", "Done", "ValidationFailed"}) =>
    /\ fields.width.some = written["width"].set
    /\ fields.width.some => fields.width.v = WrittenW
    /\ fields.height.some = written["height"].set
    /\ fields.height.some => fields.height.v = WrittenH
    /\ fields.entry.some = written["entry"].set
    /\ fields.entry.some => fields.entry.v = WrittenEntry
    /\ fields.exit_coord.some = written["exit"].set
    /\ fields.exit_coord.some => fields.exit_coord.v = WrittenExit
    /\ fields.output_file.some = written["output_file"].set
    /\ fields.output_file.some => fields.output_file.v = written["output_file"].s
    /\ fields.algorithm = WrittenRecord.algorithm
    /\ pc = "Done" => result.v = WrittenRecord

C7_Witness ==
  /\ pc = "Done"
  /\ overwrote
  /\ result.v = WrittenRecord

\* A piece of message m is the path or text t
Mentions(m, t) == \E i \in 1..Len(m) : m[i] = t

\* C8: when the path does not exist or cannot be opened, parse fails with a
\* ConfigError whose message contains the path, and returns no record.
C8_OpenFailureIsConfigError ==
  pc = "OpenFailed" =>
    /\ error.kind = "ConfigError"
    /\ Mentions(error.msg, filename)
    /\ ~result.some

\* The characters of s as one string
RECURSIVE Text(_)
Text(s) == IF s = <<>> THEN "" ELSE Head(s) \o Text(Tail(s))

NoSeparatorLines == {l \in FileLines : l.key = "noseparator"}

\* C9 as stated: a line with neither "=" nor ":" makes parse fail with a
\* ConfigError whose message carries the text of that line.
C9_FormatErrorNamesLine ==
  malformed = "noseparator" =>
    /\ pc = "ParseFailed"
    /\ error.kind = "ConfigError"
    /\ \E l \in NoSeparatorLines : Mentions(error.msg, Text(Strip(l.text)))

\* C9 as amended: a line with neither "=" nor ":" makes parse fail with a
\* ConfigError whose message is the fixed text "Invalid line format: expected
\* '=' or ':'", which does not carry the line; no record is returned.
C9_FormatErrorFixedMessage ==
  malformed = "noseparator" =>
    /\ pc = "ParseFailed"
    /\ error = Raise("ConfigError", <<"Invalid line format: expected '=' or ':'">>)
    /\ ~result.some

C9_Witness ==
  /\ malformed = "noseparator"
  /\ pc = "ParseFailed"
  /\ written["width"].set
  /\ error.kind = "ConfigError"

\* The steps of the loader
Edges ==
  {<<"Start", "Opening">>, <<"Opening", "OpenFailed">>, <<"Opening", "Scanning">>,
   <<"Scanning", "Scanning">>, <<"Scanning", "ParseFailed">>,
   <<"Scanning", "Validating">>, <<"Validating", "ValidationFailed">>,
   <<"Validating", "Done">>}

\* The messages of the errors raised during the scan
ScanMessages ==
  {<<"Invalid line format: expected '=' or ':'">>, <<"Width must be an integer">>,
   <<"Height must be an integer">>, <<"Entry must be in format: x,y">>,
   <<"Exit must be in format: x,y">>}

LoaderStateOk ==
  /\ (malformed # "none") = (pc = "ParseFailed")
  /\ pc = "ParseFailed" => error.msg \in ScanMessages
  /\ pc \in FailedStates => (error.kind # "None" /\ ~result.some)
  /\ pc = "Done" => (error = NoError /\ result.some)
  /\ pc \notin (FailedStates \cup {"Done"}) => (error = NoError /\ ~result.some)

\* A step of the loader follows its state machine
StepFollowsEdge == <<pc, pc'>> \in Edges

\* C10: the loader steps Start -> Opening -> Scanning -> Validating -> Done;
\* a line that fails to tokenize or coerce ends the load in ParseFailed with
\* the error of the scan, not one of the validator; no step leaves a failure
\* state, and a failure state holds an error and never a record.
C10_LoaderStateMachine ==
  [](LoaderStateOk) /\ [][StepFollowsEdge]_vars

C10_Witness ==
  /\ pc = "ParseFailed"
  /\ malformed = "entry"
  /\ written["width"].set /\ ~written["height"].set
  /\ error = Raise("InvalidCoordinatesError", <<"Entry must be in format: x,y">>)
  /\ ~result.some

====
